---- MODULE Spec2Model ----
(***************************************************************************)
(* Model of lib_py/air_humidity.py and lib_py/water_glycol_density_c_th.py *)
(*                                                                         *)
(* Both files are collections of pure functions over Python floats, which  *)
(* are IEEE-754 binary64 numbers.  The functions are modelled operation by *)
(* operation on binary64 values with round-to-nearest-even, so that the    *)
(* results of the model are the results of the code, bit for bit.          *)
(*                                                                         *)
(* TLC's integers are 32 bit wide, therefore a 53 bit significand is kept  *)
(* as a little-endian sequence of 15 bit limbs.                            *)
(***************************************************************************)
EXTENDS Integers, Sequences, FiniteSets, TLC

\* The({e : x \in {v}}) is e with x standing for the value of v.
The(S) == CHOOSE r \in S : TRUE

\* the sequence f as a tuple of values
Tuple(f) == f \o <<>>

Max(i, j) == IF i > j THEN i ELSE j
Min(i, j) == IF i < j THEN i ELSE j

-----------------------------------------------------------------------------
(* Natural numbers of any size: little-endian limb sequences, <<>> is 0,   *)
(* the highest limb is never 0.                                            *)

LimbBits == 15
Base == 2^LimbBits

Limb(a, i) == IF i >= 1 /\ i <= Len(a) THEN a[i] ELSE 0

TopIndex(a) == CHOOSE i \in 1..Len(a) : a[i] # 0 /\ \A j \in (i + 1)..Len(a) : a[j] = 0

Trim(a) == IF \A i \in 1..Len(a) : a[i] = 0 THEN <<>> ELSE SubSeq(a, 1, TopIndex(a))

\* a carry enters digit k of d: a digit below overflows and all between are full
CarryIn(d, k) ==
    \E j \in 1..(k - 1) : d[j] >= Base /\ \A i \in (j + 1)..(k - 1) : d[i] = Base - 1

\* digits 0 <= d[k] <= 2 * (Base - 1); the carries are rippled
Ripple(d) == Trim(Tuple([k \in 1..Len(d) |-> (d[k] + (IF CarryIn(d, k) THEN 1 ELSE 0)) % Base]))

\* the number of columns c, column k weighing Base^(k-1), 0 <= c[k] < Base^2
Normalize(c) ==
    Ripple(Tuple([k \in 1..(Len(c) + 2) |-> (Limb(c, k) % Base) + (Limb(c, k - 1) \div Base)]))

NatOf(n) == Normalize(<<n % Base, n \div Base>>)

Add(a, b) == Normalize(Tuple([k \in 1..Max(Len(a), Len(b)) |-> Limb(a, k) + Limb(b, k)]))

\* a borrow is taken from digit k of d
BorrowIn(d, k) ==
    \E j \in 1..(k - 1) : d[j] < 0 /\ \A i \in (j + 1)..(k - 1) : d[i] <= 0

Settle(d) == Trim(Tuple([k \in 1..Len(d) |-> (d[k] - (IF BorrowIn(d, k) THEN 1 ELSE 0)) % Base]))

\* a - b for a >= b
Sub(a, b) == Settle(Tuple([k \in 1..Len(a) |-> a[k] - Limb(b, k)]))

\* the highest limb in which a and b of equal length differ
TopDiff(a, b) ==
    CHOOSE i \in 1..Len(a) : a[i] # b[i] /\ \A j \in (i + 1)..Len(a) : a[j] = b[j]

\* -1, 0, 1 as a < b, a = b, a > b
Cmp(a, b) ==
    IF Len(a) < Len(b) THEN -1
    ELSE IF Len(a) > Len(b) THEN 1
    ELSE IF a = b THEN 0
    ELSE IF a[TopDiff(a, b)] < b[TopDiff(a, b)] THEN -1 ELSE 1

\* a * d for 0 <= d <= Base
MulSmall(a, d) == Normalize(Tuple([k \in 1..Len(a) |-> a[k] * d]))

RECURSIVE ColumnLo(_, _, _, _)
\* the low halves of the limb products a[i] * b[k + 1 - i], from i on
ColumnLo(a, b, k, i) ==
    IF i > Len(a) \/ i > k THEN 0
    ELSE ((a[i] * Limb(b, k + 1 - i)) % Base) + ColumnLo(a, b, k, i + 1)

RECURSIVE ColumnHi(_, _, _, _)
ColumnHi(a, b, k, i) ==
    IF i > Len(a) \/ i > k THEN 0
    ELSE ((a[i] * Limb(b, k + 1 - i)) \div Base) + ColumnHi(a, b, k, i + 1)

Mul(a, b) ==
    IF a = <<>> \/ b = <<>> THEN <<>>
    ELSE Normalize(Tuple([k \in 1..(Len(a) + Len(b)) |->
                       ColumnLo(a, b, k, Max(1, k + 1 - Len(b)))
                       + (IF k = 1 THEN 0
                          ELSE ColumnHi(a, b, k - 1, Max(1, k - Len(b))))]))

\* a * Base^q * 2^r for r < LimbBits
ShlBy(a, q, r) ==
    Trim(Tuple([j \in 1..(Len(a) + q + 1) |->
                 ((Limb(a, j - q) % (2^(LimbBits - r))) * (2^r))
                 + (Limb(a, j - q - 1) \div (2^(LimbBits - r)))]))

\* a * 2^k
Shl(a, k) == ShlBy(a, k \div LimbBits, k % LimbBits)

\* a \div (Base^q * 2^r) for r < LimbBits
ShrBy(a, q, r) ==
    IF q >= Len(a) THEN <<>>
    ELSE Trim(Tuple([j \in 1..(Len(a) - q) |->
                      (Limb(a, j + q) \div (2^r))
                      + ((Limb(a, j + q + 1) % (2^r)) * (2^(LimbBits - r)))]))

\* a \div 2^k
Shr(a, k) == ShrBy(a, k \div LimbBits, k % LimbBits)

RECURSIVE DivSmallFrom(_, _, _, _, _)
\* the limbs above i of a are divided by d, giving the limbs q and the rest r
DivSmallFrom(a, d, i, r, q) ==
    IF i = 0 THEN q
    ELSE The({DivSmallFrom(a, d, i - 1, x % d, <<x \div d>> \o q) :
                x \in {(r * Base) + a[i]}})

\* a \div d for 0 < d <= Base
DivSmall(a, d) == Trim(DivSmallFrom(a, d, Len(a), 0, <<>>))

IntBits(n) == CHOOSE i \in 0..LimbBits : n < 2^i /\ (i = 0 \/ n >= 2^(i - 1))

BitLen(a) == IF a = <<>> THEN 0 ELSE (LimbBits * (Len(a) - 1)) + IntBits(a[Len(a)])

Bit(a, i) == (Limb(a, (i \div LimbBits) + 1) \div (2^(i % LimbBits))) % 2

\* the k lowest bits of a are all 0
LowZero(a, k) == /\ \A i \in 1..(k \div LimbBits) : Limb(a, i) = 0
                 /\ Limb(a, (k \div LimbBits) + 1) % (2^(k % LimbBits)) = 0

\* a lower estimate of r \div b from the two top limbs
Estimate(r, b) ==
    Min(Base - 1, ((Limb(r, Len(b) + 1) * Base) + Limb(r, Len(b))) \div (b[Len(b)] + 1))

RECURSIVE DivFix(_, _, _, _)
\* rem = r - q * b >= 0: raise q until rem < b
DivFix(r, b, q, rem) ==
    IF Cmp(rem, b) < 0 THEN <<q, rem>>
    ELSE The({DivFix(r, b, q2, Sub(r, MulSmall(b, q2))) :
                q2 \in {q + Max(1, Estimate(rem, b))}})

\* one quotient limb of r \div b, for r < b * Base and the top limb of b >= Base \div 2
DivLimb(r, b) == DivFix(r, b, 0, r)

RECURSIVE DivLong(_, _, _, _, _)
\* <<quotient, remainder>>: the limbs above i of a are divided, giving q and r
DivLong(a, b, i, q, r) ==
    IF i = 0 THEN <<Trim(q), r>>
    ELSE The({The({DivLong(a, b, i - 1, q2, d[2]) : q2 \in {<<d[1]>> \o q}}) :
                d \in {DivLimb(Trim(<<a[i]>> \o r), b)}})

\* the shift that brings the top limb of b to Base \div 2 or more
NormShift(b) == (LimbBits - (BitLen(b) % LimbBits)) % LimbBits

DivShifted(a, b) == DivLong(a, b, Len(a), <<>>, <<>>)

\* <<a \div b, r>> for b # 0, where r = <<>> exactly if b divides a
DivMod(a, b) == DivShifted(Shl(a, NormShift(b)), Shl(b, NormShift(b)))

-----------------------------------------------------------------------------
(* binary64: (-1)^s * m * 2^e.  A normal number has a significand m of     *)
(* exactly MantBits bits; a subnormal one has e = EMin and fewer bits;     *)
(* zero is m = <<>>, e = 0 and keeps its sign.                             *)

MantBits == 53
EMin == -1074

FZero(s) == [s |-> s, m |-> <<>>, e |-> 0]

IsZero(x) == x.m = <<>>

\* the rounded significand q at exponent e, renormalised if rounding carried out
Carried(s, q, e) ==
    IF q = <<>> THEN FZero(s)
    ELSE IF BitLen(q) > MantBits THEN [s |-> s, m |-> Shr(q, 1), e |-> e + 1]
    ELSE [s |-> s, m |-> q, e |-> e]

\* m * 2^e brought to the exponent e2: exact if e2 <= e, else the sh = e2 - e
\* low bits are rounded off, to nearest, ties to even
RoundTo(s, m, e, sticky, e2) ==
    IF e2 <= e THEN [s |-> s, m |-> Shl(m, e - e2), e |-> e2]
    ELSE IF /\ Bit(m, e2 - e - 1) = 1
            /\ (sticky \/ ~LowZero(m, e2 - e - 1) \/ Bit(m, e2 - e) = 1)
         THEN Carried(s, Add(Shr(m, e2 - e), <<1>>), e2)
         ELSE Carried(s, Shr(m, e2 - e), e2)

\* m * 2^e (plus a non-zero rest below the lowest bit of m if sticky) rounded
\* to the nearest binary64, ties to even
RoundPack(s, m, e, sticky) ==
    IF m = <<>> THEN FZero(s)
    ELSE RoundTo(s, m, e, sticky, Max(EMin, e + BitLen(m) - MantBits))

\* the float of an integer literal
FInt(n) == IF n < 0 THEN RoundPack(1, NatOf(-n), 0, FALSE)
           ELSE RoundPack(0, NatOf(n), 0, FALSE)

FNeg(x) == [s |-> 1 - x.s, m |-> x.m, e |-> x.e]

\* -1, 0, 1 as |x| < |y|, |x| = |y|, |x| > |y|
CmpAbs(x, y) == IF IsZero(x) THEN (IF IsZero(y) THEN 0 ELSE -1)
                ELSE IF IsZero(y) THEN 1
                ELSE IF x.e < y.e THEN -1
                ELSE IF x.e > y.e THEN 1
                ELSE Cmp(x.m, y.m)

\* -1, 0, 1 as x < y, x = y, x > y (-0.0 = 0.0)
FCmp(x, y) == IF IsZero(x) /\ IsZero(y) THEN 0
              ELSE IF IsZero(x) THEN (IF y.s = 1 THEN 1 ELSE -1)
              ELSE IF IsZero(y) THEN (IF x.s = 1 THEN -1 ELSE 1)
              ELSE IF x.s # y.s THEN (IF x.s = 1 THEN -1 ELSE 1)
              ELSE IF x.s = 1 THEN -CmpAbs(x, y) ELSE CmpAbs(x, y)

FLe(x, y) == FCmp(x, y) <= 0
FLt(x, y) == FCmp(x, y) < 0
FEq(x, y) == FCmp(x, y) = 0

\* the significand of the smaller operand lies wholly below the rounding bit
FarApart == MantBits + 7

FAddFar(big, small) ==
    IF big.s = small.s THEN RoundPack(big.s, Shl(big.m, 2), big.e - 2, TRUE)
    ELSE RoundPack(big.s, Sub(Shl(big.m, 2), <<1>>), big.e - 2, TRUE)

\* (-1)^sx * ax * 2^e + (-1)^sy * ay * 2^e
FAddAligned(sx, ax, sy, ay, e) ==
    IF sx = sy THEN RoundPack(sx, Add(ax, ay), e, FALSE)
    ELSE IF Cmp(ax, ay) = 0 THEN FZero(0)
    ELSE IF Cmp(ax, ay) > 0 THEN RoundPack(sx, Sub(ax, ay), e, FALSE)
    ELSE RoundPack(sy, Sub(ay, ax), e, FALSE)

FAddNear(x, y) ==
    FAddAligned(x.s, Shl(x.m, x.e - Min(x.e, y.e)),
                y.s, Shl(y.m, y.e - Min(x.e, y.e)), Min(x.e, y.e))

\* x + y
FAdd(x, y) ==
    IF IsZero(x) /\ IsZero(y) THEN FZero(IF x.s = 1 /\ y.s = 1 THEN 1 ELSE 0)
    ELSE IF IsZero(x) THEN y
    ELSE IF IsZero(y) THEN x
    ELSE IF x.e - y.e > FarApart THEN FAddFar(x, y)
    ELSE IF y.e - x.e > FarApart THEN FAddFar(y, x)
    ELSE FAddNear(x, y)

\* x - y
FSub(x, y) == FAdd(x, FNeg(y))

\* x * y
FMul(x, y) ==
    IF IsZero(x) \/ IsZero(y) THEN FZero((x.s + y.s) % 2)
    ELSE RoundPack((x.s + y.s) % 2, Mul(x.m, y.m), x.e + y.e, FALSE)

\* the dividend is shifted to this many bits, so the quotient has more than MantBits + 2
DividendBits == 2 * MantBits + 9

\* the quotient and remainder d of the significands, rounded
FDivPack(s, d, e) == RoundPack(s, d[1], e, d[2] # <<>>)

\* x / y for y # 0
FDiv(x, y) ==
    IF IsZero(x) THEN FZero((x.s + y.s) % 2)
    ELSE FDivPack((x.s + y.s) % 2,
                  DivMod(Shl(x.m, DividendBits - BitLen(x.m)), y.m),
                  x.e - (DividendBits - BitLen(x.m)) - y.e)

\* the float of the decimal literal n / 10^k, e.g. 6.112 is Dec(6112, 3)
Dec(n, k) == FDiv(FInt(n), FInt(10^k))

-----------------------------------------------------------------------------
(* exp and log of the C library, which math.exp and math.log call: the     *)
(* double nearest to the exact result, computed in fixed point with        *)
(* FracBits binary places.                                                 *)

FracBits == 7 * LimbBits
GuardBits == 4 * LimbBits

One == Shl(<<1>>, FracBits)

FxMul(a, b) == Shr(Mul(a, b), FracBits)

RECURSIVE AtanhSum(_, _, _, _)
\* acc + p / n + p * z2 / (n + 2) + p * z2^2 / (n + 4) + ...
AtanhSum(p, z2, n, acc) ==
    IF p = <<>> THEN acc
    ELSE The({AtanhSum(v[2], z2, n + 2, v[1]) :
                v \in {<<Add(acc, DivSmall(p, n)), FxMul(p, z2)>>}})

\* floor(ln 2 * 2^FracBits)
Ln2 == <<12295, 3790, 24143, 30618, 31289, 1533, 22713>>

RECURSIVE ExpSum(_, _, _, _)
\* acc + term + term * r / n + term * r^2 / (n * (n + 1)) + ...
ExpSum(term, r, n, acc) ==
    IF term = <<>> THEN acc
    ELSE The({ExpSum(v[2], r, n + 1, v[1]) :
                v \in {<<Add(acc, term), DivSmall(FxMul(term, r), n)>>}})

\* |x| in fixed point, for |x| < 2^LimbBits
Fixed(x) == IF x.e + FracBits >= 0 THEN Shl(x.m, x.e + FracBits)
            ELSE Shr(x.m, -(x.e + FracBits))

\* the number a < Base as an integer
ToInt(a) == IF a = <<>> THEN 0 ELSE a[1]

\* e^X = 2^k * e^(X - k * ln 2) for k = floor(X / ln 2)
ExpUp(X, k) ==
    RoundPack(0, ExpSum(One, Sub(X, MulSmall(Ln2, k)), 1, <<>>), k - FracBits, X # <<>>)

\* e^(-X) = 2^(-k) * e^(k * ln 2 - X) for k = ceiling(X / ln 2)
ExpDown(X, k) ==
    RoundPack(0, ExpSum(One, Sub(MulSmall(Ln2, k), X), 1, <<>>), (-k) - FracBits, X # <<>>)

\* the ceiling of the quotient, from d = <<quotient, remainder>>
Ceiling(d) == ToInt(d[1]) + (IF d[2] = <<>> THEN 0 ELSE 1)

\* e^x for |x| < 2^10
FExp(x) ==
    IF x.s = 0 THEN ExpUp(Fixed(x), ToInt(DivMod(Fixed(x), Ln2)[1]))
    ELSE ExpDown(Fixed(x), Ceiling(DivMod(Fixed(x), Ln2)))

LogExp == -(FracBits + GuardBits)

\* k * ln 2 + (-1)^neg * R
LogPack(neg, k, R, K) ==
    IF k = 0 THEN RoundPack(IF neg THEN 1 ELSE 0, R, LogExp, TRUE)
    ELSE IF k > 0 THEN RoundPack(0, IF neg THEN Sub(K, R) ELSE Add(K, R), LogExp, TRUE)
    ELSE RoundPack(1, IF neg THEN Add(K, R) ELSE Sub(K, R), LogExp, TRUE)

\* 2 * atanh(num / den), where A = atanh(z) / z for z = num / den
LogR(num, den, A) == DivMod(Shl(Mul(MulSmall(num, 2), A), GuardBits), den)[1]

\* (num / den)^2
LogZ2(num, den) == DivMod(Shl(Mul(num, num), FracBits), Mul(den, den))[1]

\* ln(f * 2^k) for f = (den + num) / (den - num), or its inverse if neg
LogSum(neg, num, den, k) ==
    The({The({The({LogPack(neg, k, R, Shl(MulSmall(Ln2, IF k < 0 THEN -k ELSE k), GuardBits)) :
                    R \in {LogR(num, den, A)}}) :
                A \in {AtanhSum(One, z2, 1, <<>>)}}) :
            z2 \in {LogZ2(num, den)}})

\* ln((mm / unit) * 2^k)
LogFrac(mm, unit, k) ==
    IF Cmp(mm, unit) < 0 THEN LogSum(TRUE, Sub(unit, mm), Add(mm, unit), k)
    ELSE LogSum(FALSE, Sub(mm, unit), Add(mm, unit), k)

\* mm is the significand shifted to MantBits bits, k the exponent of its top bit
LogNorm(mm, k) ==
    IF Cmp(mm, Shl(<<3>>, MantBits - 2)) >= 0 THEN LogFrac(mm, Shl(<<1>>, MantBits), k + 1)
    ELSE LogFrac(mm, Shl(<<1>>, MantBits - 1), k)

\* ln y for y > 0: y = f * 2^k with 3/4 <= f < 3/2, ln f = 2 * atanh((f - 1) / (f + 1))
FLog(y) == LogNorm(Shl(y.m, MantBits - BitLen(y.m)), y.e + BitLen(y.m) - 1)

(***************************************************************************)
(* Neighbouring doubles, used to build inputs next to a boundary.          *)
(***************************************************************************)
MinNormal == Shl(<<1>>, MantBits - 1)

FNextUp(x) ==
    IF IsZero(x) THEN [s |-> 0, m |-> <<1>>, e |-> EMin]
    ELSE IF x.s = 0 THEN Carried(0, Add(x.m, <<1>>), x.e)
    ELSE IF x.m = MinNormal /\ x.e > EMin
    THEN [s |-> 1, m |-> Sub(Shl(x.m, 1), <<1>>), e |-> x.e - 1]
    ELSE IF x.m = <<1>> THEN FZero(1)
    ELSE [s |-> 1, m |-> Sub(x.m, <<1>>), e |-> x.e]

FNextDown(x) == FNeg(FNextUp(FNeg(x)))

(***************************************************************************)
(* Python values and outcomes.  An argument is a float or an array (a list *)
(* or a numpy.ndarray of two or more elements) of floats; a call returns a *)
(* float, or an array of outcomes, or raises.                              *)
(***************************************************************************)
Float(x) == [kind |-> "float", f |-> x, items |-> <<>>]
PyList(xs) == [kind |-> "list", f |-> FZero(0), items |-> xs]
NdArray(xs) == [kind |-> "ndarray", f |-> FZero(0), items |-> xs]
IsScalar(a) == a.kind = "float"

Ok(v) == [err |-> "none", v |-> v, items |-> <<>>]
Raise(e) == [err |-> e, v |-> FZero(0), items |-> <<>>]
Returned(r) == r.err = "none"

\* math.exp of a float.
math_exp(x) == Ok(FExp(x))

\* a faulty math.log: the sign of the argument is dropped
math_log_abs(a) ==
    IF ~IsScalar(a) THEN Raise("TypeError")
    ELSE IF IsZero(a.f) THEN Raise("ValueError")
    ELSE Ok(FLog([s |-> 0, m |-> a.f.m, e |-> a.f.e]))

\* math.log: ValueError for a float <= 0 (both zeros included), TypeError
\* for a list and for an ndarray of two or more elements.
math_log(a) ==
    IF ~IsScalar(a) THEN Raise("TypeError")
    ELSE IF IsZero(a.f) \/ a.f.s = 1 THEN Raise("ValueError")
    ELSE Ok(FLog(a.f))

(***************************************************************************)
(* air_humidity.py                                                         *)
(*                                                                         *)
(* rh and p are floats in every call made here; t and p_w are floats or    *)
(* arrays.                                                                 *)
(***************************************************************************)
C1 == Dec(6112, 3)
C2 == Dec(1762, 2)
C3 == Dec(24312, 2)
M_water == Dec(18016, 3)
R_gas == Dec(83143, 1)
T_zero == Dec(27315, 2)
M_dry_air == Dec(289644, 4)
TLow == -45
THigh == 60

\* a faulty range test: the two ends are excluded
InRangeOpen(t) == FLt(FInt(TLow), t) /\ FLt(t, FInt(THigh))

\* a faulty range test: the assert statement is not executed
InRangeUnchecked(t) == TRUE

\* assert -45 <= t <= 60: the comparison of an int with a list raises
\* TypeError; with an ndarray of two or more elements it is elementwise and
\* its truth value raises ValueError.
InRange(t) == FLe(FInt(TLow), t) /\ FLe(t, FInt(THigh))

\* a faulty water_p_sat: the sign of the exponent is wrong
water_p_sat_falling(t) ==
    IF t.kind = "list" THEN Raise("TypeError")
    ELSE IF t.kind = "ndarray" THEN Raise("ValueError")
    ELSE IF ~InRange(t.f) THEN Raise("AssertionError")
    ELSE Ok(FMul(C1, math_exp(FNeg(FDiv(FMul(C2, t.f), FAdd(C3, t.f)))).v))

\* C1 * math.exp((C2*t)/(C3+t))
water_p_sat(t) ==
    IF t.kind = "list" THEN Raise("TypeError")
    ELSE IF t.kind = "ndarray" THEN Raise("ValueError")
    ELSE IF ~InRange(t.f) THEN Raise("AssertionError")
    ELSE Ok(FMul(C1, math_exp(FDiv(FMul(C2, t.f), FAdd(C3, t.f))).v))

\* rh/100.0 * water_p_sat(t)
air_p_w(rh, t) ==
    The({IF Returned(w) THEN Ok(FMul(FDiv(rh.f, FInt(100)), w.v)) ELSE w :
            w \in {water_p_sat(t)}})

\* a faulty air_dew_point_pw: C2 and C3 have changed places
air_dew_point_pw_swapped(p_w) ==
    IF p_w.kind = "list" THEN Raise("TypeError")
    ELSE The({IF ~Returned(l) THEN l
              ELSE IF IsZero(FSub(C3, l.v)) THEN Raise("ZeroDivisionError")
              ELSE Ok(FDiv(FMul(C2, l.v), FSub(C3, l.v))) :
                l \in {math_log(IF IsScalar(p_w) THEN Float(FDiv(p_w.f, C1)) ELSE p_w)}})

\* C3 * math.log(p_w/C1) / (C2 - math.log(p_w/C1)); p_w/C1 raises TypeError
\* for a list and is elementwise for an ndarray
air_dew_point_pw(p_w) ==
    IF p_w.kind = "list" THEN Raise("TypeError")
    ELSE The({IF ~Returned(l) THEN l
              ELSE IF IsZero(FSub(C2, l.v)) THEN Raise("ZeroDivisionError")
              ELSE Ok(FDiv(FMul(C3, l.v), FSub(C2, l.v))) :
                l \in {math_log(IF IsScalar(p_w) THEN Float(FDiv(p_w.f, C1)) ELSE p_w)}})

\* air_dew_point_pw(air_p_w(rh, t))
air_dew_point(rh, t) ==
    The({IF Returned(p) THEN air_dew_point_pw(Float(p.v)) ELSE p : p \in {air_p_w(rh, t)}})

\* 1E5 * M_water / R_gas * air_p_w(rh, t)/(t + T_zero)
air_abs_hum_vol(rh, t) ==
    The({IF ~Returned(p) THEN p
         ELSE IF IsZero(FAdd(t.f, T_zero)) THEN Raise("ZeroDivisionError")
         ELSE Ok(FDiv(FMul(FDiv(FMul(FInt(100000), M_water), R_gas), p.v),
                      FAdd(t.f, T_zero))) :
            p \in {air_p_w(rh, t)}})

\* the divisor M_water + (p/air_p_w(rh, t) - 1) * M_dry_air, for q = p/air_p_w(rh, t)
x_w_divisor(q) == FAdd(M_water, FMul(FSub(q, FInt(1)), M_dry_air))

\* a faulty air_x_w: p divided by a zero vapour pressure is infinite, as in
\* IEEE arithmetic, and the fraction is 0.0
air_x_w_ieee(rh, t, p) ==
    The({IF ~Returned(w) THEN w
         ELSE IF IsZero(w.v) THEN Ok(FZero(0))
         ELSE IF IsZero(x_w_divisor(FDiv(p.f, w.v))) THEN Raise("ZeroDivisionError")
         ELSE Ok(FDiv(FMul(FInt(1000), M_water), x_w_divisor(FDiv(p.f, w.v)))) :
            w \in {air_p_w(rh, t)}})

\* 1000 * M_water / (M_water + (p/air_p_w(rh, t) - 1) * M_dry_air)
air_x_w(rh, t, p) ==
    The({IF ~Returned(w) THEN w
         ELSE IF IsZero(w.v) THEN Raise("ZeroDivisionError")
         ELSE IF IsZero(x_w_divisor(FDiv(p.f, w.v))) THEN Raise("ZeroDivisionError")
         ELSE Ok(FDiv(FMul(FInt(1000), M_water), x_w_divisor(FDiv(p.f, w.v)))) :
            w \in {air_p_w(rh, t)}})

(***************************************************************************)
(* water_glycol_density_c_th.py                                            *)
(*                                                                         *)
(* A reference table is kept as its abscissas (integers) and the decimal   *)
(* digits of its values: entry i is the double Dec(fp[i], k).              *)
(***************************************************************************)

\* abscissa i and value i of a table, as doubles
Knot(xp, i) == FInt(xp[i])
Value(fp, k, i) == Dec(fp[i], k)

\* the index j with xp[j] <= x < xp[j+1], or the last index if x is the last abscissa
Segment(x, xp) ==
    CHOOSE i \in 1..Len(xp) :
        FLe(Knot(xp, i), x) /\ (i = Len(xp) \/ FLt(x, Knot(xp, i + 1)))

\* slope * (x - x0) + y0 with slope = (y1 - y0) / (x1 - x0)
Linear(x, x0, x1, y0, y1) ==
    FAdd(FMul(FDiv(FSub(y1, y0), FSub(x1, x0)), FSub(x, x0)), y0)

\* a faulty interp: the first and the last segment are continued beyond the table
interp_extrapolate(x, xp, fp, k) ==
    IF FLt(x, Knot(xp, 1))
    THEN Linear(x, Knot(xp, 1), Knot(xp, 2), Value(fp, k, 1), Value(fp, k, 2))
    ELSE IF FLt(Knot(xp, Len(xp)), x)
    THEN Linear(x, Knot(xp, Len(xp) - 1), Knot(xp, Len(xp)),
                Value(fp, k, Len(fp) - 1), Value(fp, k, Len(fp)))
    ELSE The({IF j = Len(xp) \/ FEq(Knot(xp, j), x) THEN Value(fp, k, j)
              ELSE Linear(x, Knot(xp, j), Knot(xp, j + 1), Value(fp, k, j), Value(fp, k, j + 1)) :
                j \in {Segment(x, xp)}})

\* np.interp(x, xp, fp) for a scalar x: the first value below the first
\* abscissa, the last value above the last one, the tabulated value at an
\* abscissa, and the linear interpolation in between.
interp(x, xp, fp, k) ==
    IF FLt(x, Knot(xp, 1)) THEN Value(fp, k, 1)
    ELSE IF FLt(Knot(xp, Len(xp)), x) THEN Value(fp, k, Len(fp))
    ELSE The({IF j = Len(xp) \/ FEq(Knot(xp, j), x) THEN Value(fp, k, j)
              ELSE Linear(x, Knot(xp, j), Knot(xp, j + 1), Value(fp, k, j), Value(fp, k, j + 1)) :
                j \in {Segment(x, xp)}})

c_th_water_t_ref == <<0, 10, 20, 30, 40, 50, 60, 70, 80, 90, 100>>
c_th_water_c_ref ==
    <<42177, 41922, 41819, 41785, 41786, 41807, 41844, 41896, 41964, 42051, 42160>>

c_th_water(theta) == Ok(interp(theta.f, c_th_water_t_ref, c_th_water_c_ref, 1))

rho_glykol60_t_ref ==
    <<-40, -30, -20, -10, 0, 10, 20, 30, 40, 50, 60, 70, 80, 90, 100, 110>>

\* a faulty table: two digits of the eighth density have changed places
rho_glykol60_rho_ref_typo ==
    <<1120010, 1114359, 1108554, 1102760, 1096879, 1090945, 1085007, 1087812,
      1072367, 1065847, 1059047, 1051983, 1044773, 1037459, 1030002, 1022522>>

rho_glykol60_rho_ref ==
    <<1120010, 1114359, 1108554, 1102760, 1096879, 1090945, 1085007, 1078812,
      1072367, 1065847, 1059047, 1051983, 1044773, 1037459, 1030002, 1022522>>

rho_glykol60(theta) == Ok(interp(theta.f, rho_glykol60_t_ref, rho_glykol60_rho_ref, 6))

c_th_glykol60_t_ref ==
    <<-40, -35, -30, -25, -20, -15, -10, -5, 0, 5, 10, 15, 20, 25, 30, 35,
      40, 45, 50, 55, 60, 65, 70, 75, 80, 85, 90, 95, 100, 105>>
c_th_glykol60_c_ref ==
    <<270330, 274960, 279374, 283847, 287921, 291942, 295572, 299230,
      302666, 305985, 309232, 312275, 315232, 318133, 320828,
      323492, 325996, 328554, 330936, 333149, 335435, 337535,
      339678, 341590, 343559, 345444, 347116, 348749, 350392, 351787>>

\* a faulty c_th_glykol60: the abscissas are those of rho_glykol60
c_th_glykol60_rho_abscissas(theta) ==
    Ok(interp(theta.f, rho_glykol60_t_ref, c_th_glykol60_c_ref, 2))

c_th_glykol60(theta) == Ok(interp(theta.f, c_th_glykol60_t_ref, c_th_glykol60_c_ref, 2))

(***************************************************************************)
(* Inputs.  Temperatures are the whole degrees of a grid over the          *)
(* definition range, whole degrees beyond it, the doubles next to its two  *)
(* ends, absolute zero and a temperature below it.                         *)
(***************************************************************************)
GridStep == 4
Beyond == 2
MaxArrayLen == 2

TGrid == {t \in TLow..THigh : (t - TLow) % GridStep = 0} \cup {THigh}
TBeyond == {TLow - k : k \in 1..Beyond} \cup {THigh + k : k \in 1..Beyond}
MinSubnormal == FNextUp(FZero(0))

TVals ==
    {FInt(t) : t \in TGrid \cup TBeyond}
        \cup {FNextDown(FInt(TLow)), FNextUp(FInt(THigh)), FNeg(T_zero), FInt(-300)}
RhVals == {FZero(0), FZero(1), FInt(-5), MinSubnormal, FInt(1), FInt(50), FInt(100)}
PVals == {FInt(1013), FZero(0), FInt(-1013)}
\* the last one is the p_w whose logarithm meets C2
PwVals ==
    {FZero(0), FZero(1), FInt(-1), MinSubnormal, C1, FInt(10), FInt(200), FMul(C1, FExp(C2))}

ItemVals == {FInt(20), FInt(70)}
ItemSeqs == UNION {[1..n -> ItemVals] : n \in 2..MaxArrayLen}
Arrays == {PyList(xs) : xs \in ItemSeqs} \cup {NdArray(xs) : xs \in ItemSeqs}

\* the abscissas of a table, the midpoints between them, and points beyond
\* both ends (whole steps of 10 below, of 50 above, and the nearest doubles)
ThetaInside(xp) ==
    {FInt(xp[i]) : i \in 1..Len(xp)}
        \cup {FDiv(FInt(xp[i] + xp[i + 1]), FInt(2)) : i \in 1..(Len(xp) - 1)}
ThetaVals(xp) ==
    ThetaInside(xp)
        \cup {FInt(xp[1] - (10 * k)) : k \in 1..Beyond}
        \cup {FInt(xp[Len(xp)] + (50 * k)) : k \in 1..Beyond}
        \cup {FNextDown(FInt(xp[1])), FNextUp(FInt(xp[Len(xp)]))}

Call(f, a) == [fn |-> f, args |-> a]

ScalarCalls ==
    {Call("water_p_sat", <<Float(t)>>) : t \in TVals}
        \cup {Call("air_dew_point_pw", <<Float(p)>>) : p \in PwVals}
        \cup {Call(f, <<Float(rh), Float(t)>>) :
                f \in {"air_p_w", "air_dew_point", "air_abs_hum_vol", "air_x_w"},
                rh \in RhVals, t \in TVals}
        \cup {Call("air_x_w", <<Float(rh), Float(t), Float(p)>>) :
                rh \in RhVals, t \in TVals, p \in PVals}

ArrayCalls ==
    {Call(f, <<a>>) : f \in {"water_p_sat", "air_dew_point_pw"}, a \in Arrays}
        \cup {Call(f, <<Float(FInt(50)), a>>) :
                f \in {"air_p_w", "air_dew_point", "air_abs_hum_vol", "air_x_w"}, a \in Arrays}

TableCalls ==
    {Call("c_th_water", <<Float(x)>>) : x \in ThetaVals(c_th_water_t_ref)}
        \cup {Call("rho_glykol60", <<Float(x)>>) : x \in ThetaVals(rho_glykol60_t_ref)}
        \cup {Call("c_th_glykol60", <<Float(x)>>) : x \in ThetaVals(c_th_glykol60_t_ref)}

Calls == ScalarCalls \cup ArrayCalls \cup TableCalls

\* Two calls of one function at temperatures t1 < t2.  For water_p_sat the
\* grid, and 0, 1 and 17.28 each with the next double and a point 2e-9 above;
\* for rho_glykol60 the abscissas, the doubles next to them and the midpoints.
NearStep == Dec(2, 9)
WaterPoints ==
    {FInt(t) : t \in TGrid}
        \cup UNION {{b, FNextUp(b), FAdd(b, NearStep)} : b \in {FZero(0), FInt(1), Dec(1728, 2)}}
RhoPoints ==
    ThetaInside(rho_glykol60_t_ref)
        \cup {FNextDown(FInt(rho_glykol60_t_ref[i])) : i \in 2..Len(rho_glykol60_t_ref)}
        \cup {FNextUp(FInt(rho_glykol60_t_ref[i])) : i \in 1..(Len(rho_glykol60_t_ref) - 1)}
Rising(S) == {p \in S \X S : FLt(p[1], p[2])}
PairCalls ==
    {<<Call("water_p_sat", <<Float(p[1])>>), Call("water_p_sat", <<Float(p[2])>>)>> :
        p \in Rising(WaterPoints)}
        \cup {<<Call("rho_glykol60", <<Float(p[1])>>), Call("rho_glykol60", <<Float(p[2])>>)>> :
                p \in Rising(RhoPoints)}

(***************************************************************************)
(* The state machine: the caller's calls, drawn by Init, and the outcomes  *)
(* of those made so far.  Each action makes the next call.                 *)
(***************************************************************************)
VARIABLES calls, outs
vars == <<calls, outs>>

Pending(f) == Len(outs) < Len(calls) /\ calls[Len(outs) + 1].fn = f
Arg(i) == calls[Len(outs) + 1].args[i]
NArgs == Len(calls[Len(outs) + 1].args)
Return(r) == outs' = Append(outs, r) /\ UNCHANGED calls

Call_water_p_sat == Pending("water_p_sat") /\ Return(water_p_sat(Arg(1)))
Call_air_p_w == Pending("air_p_w") /\ Return(air_p_w(Arg(1), Arg(2)))
Call_air_dew_point_pw == Pending("air_dew_point_pw") /\ Return(air_dew_point_pw(Arg(1)))
Call_air_dew_point == Pending("air_dew_point") /\ Return(air_dew_point(Arg(1), Arg(2)))
Call_air_abs_hum_vol == Pending("air_abs_hum_vol") /\ Return(air_abs_hum_vol(Arg(1), Arg(2)))
\* def air_x_w(rh, t, p=1013)
Call_air_x_w ==
    /\ Pending("air_x_w")
    /\ Return(air_x_w(Arg(1), Arg(2), IF NArgs = 3 THEN Arg(3) ELSE Float(FInt(1013))))
Call_c_th_water == Pending("c_th_water") /\ Return(c_th_water(Arg(1)))
Call_rho_glykol60 == Pending("rho_glykol60") /\ Return(rho_glykol60(Arg(1)))
Call_c_th_glykol60 == Pending("c_th_glykol60") /\ Return(c_th_glykol60(Arg(1)))

Init == calls \in {<<c>> : c \in Calls} /\ outs = <<>>

Next ==
    \/ Call_water_p_sat
    \/ Call_air_p_w
    \/ Call_air_dew_point_pw
    \/ Call_air_dew_point
    \/ Call_air_abs_hum_vol
    \/ Call_air_x_w
    \/ Call_c_th_water
    \/ Call_rho_glykol60
    \/ Call_c_th_glykol60

Spec == Init /\ [][Next]_vars

\* The caller makes two calls of water_p_sat, or two of rho_glykol60, at
\* rising temperatures.
InitMonotone == calls \in PairCalls /\ outs = <<>>

NextMonotone ==
    \/ Call_water_p_sat
    \/ Call_rho_glykol60

SpecMonotone == InitMonotone /\ [][NextMonotone]_vars

(***************************************************************************)
(* Properties.  Each is stated over the calls made so far: call i is       *)
(* calls[i] and its outcome is outs[i].                                    *)
(***************************************************************************)
Made == 1..Len(outs)
IsCall(i, f) == i \in Made /\ calls[i].fn = f
ScalarArgs(i) == \A j \in 1..Len(calls[i].args) : IsScalar(calls[i].args[j])
Tolerance == Dec(1, 6)
Positive(x) == FLt(FZero(0), x)

\* C1: water_p_sat(t) returns a value for every t with -45 <= t <= 60, both
\* ends included, and fails, returning nothing, for every other t.
C1_WaterPSatDomain ==
    \A i \in Made :
        IsCall(i, "water_p_sat") /\ ScalarArgs(i)
            => IF FLe(FInt(-45), calls[i].args[1].f) /\ FLe(calls[i].args[1].f, FInt(60))
               THEN Returned(outs[i])
               ELSE outs[i].err = "AssertionError"

\* water_p_sat(60.0) has returned a value and water_p_sat(-45.0) too
C1_Witness ==
    \E i \in Made :
        /\ IsCall(i, "water_p_sat")
        /\ calls[i].args[1] \in {Float(FInt(60)), Float(FInt(-45))}
        /\ Returned(outs[i])
        /\ Positive(outs[i].v)

HumidAir ==
    {"water_p_sat", "air_p_w", "air_dew_point_pw", "air_dew_point", "air_abs_hum_vol", "air_x_w"}

\* the outcome of call c made with element k of array a in the place of a
ElementCall(c, a, k) ==
    CASE c.fn = "water_p_sat" -> water_p_sat(Float(a.items[k]))
      [] c.fn = "air_dew_point_pw" -> air_dew_point_pw(Float(a.items[k]))
      [] c.fn = "air_p_w" -> air_p_w(c.args[1], Float(a.items[k]))
      [] c.fn = "air_dew_point" -> air_dew_point(c.args[1], Float(a.items[k]))
      [] c.fn = "air_abs_hum_vol" -> air_abs_hum_vol(c.args[1], Float(a.items[k]))
      [] c.fn = "air_x_w" -> air_x_w(c.args[1], Float(a.items[k]), Float(FInt(1013)))

\* C2: every humid-air function called with an array returns an array, whose
\* element k is the outcome of the call made with element k alone.
C2_ArraysElementwise ==
    \A i \in Made :
        \A j \in 1..Len(calls[i].args) :
            calls[i].fn \in HumidAir /\ ~IsScalar(calls[i].args[j])
                => /\ Returned(outs[i])
                   /\ Len(outs[i].items) = Len(calls[i].args[j].items)
                   /\ \A k \in 1..Len(outs[i].items) :
                        outs[i].items[k] = ElementCall(calls[i], calls[i].args[j], k)

\* C3: air_x_w(0, t, p) fails for any t and any p, the default p included:
\* with ZeroDivisionError if t is in the definition range, else with the
\* AssertionError of water_p_sat.
C3_ZeroHumidityFails ==
    \A i \in Made :
        IsCall(i, "air_x_w") /\ ScalarArgs(i) /\ IsZero(calls[i].args[1].f)
            => outs[i].err =
                (IF FLe(FInt(-45), calls[i].args[2].f) /\ FLe(calls[i].args[2].f, FInt(60))
                 THEN "ZeroDivisionError" ELSE "AssertionError")

\* air_x_w(0.0, 3.0) with the default pressure has raised ZeroDivisionError
C3_Witness ==
    \E i \in Made :
        /\ IsCall(i, "air_x_w")
        /\ calls[i].args = <<Float(FZero(0)), Float(FInt(3))>>
        /\ outs[i].err = "ZeroDivisionError"

\* C4: air_dew_point_pw(p_w) fails for every p_w <= 0, and air_dew_point(rh, t)
\* fails for every rh <= 0 and t in the definition range; no value is returned.
C4_NonPositivePressureFails ==
    \A i \in Made :
        /\ (IsCall(i, "air_dew_point_pw") /\ ScalarArgs(i) /\ FLe(calls[i].args[1].f, FZero(0)))
            => outs[i].err = "ValueError"
        /\ (IsCall(i, "air_dew_point") /\ ScalarArgs(i)
                /\ FLe(calls[i].args[1].f, FZero(0))
                /\ FLe(FInt(-45), calls[i].args[2].f) /\ FLe(calls[i].args[2].f, FInt(60)))
            => outs[i].err = "ValueError"

\* air_dew_point(-5.0, t) has failed for a t in the range, and so has
\* air_dew_point_pw(-1.0)
C4_Witness ==
    \E i \in Made :
        /\ \/ IsCall(i, "air_dew_point") /\ calls[i].args = <<Float(FInt(-5)), Float(FInt(60))>>
           \/ IsCall(i, "air_dew_point_pw") /\ calls[i].args = <<Float(FInt(-1))>>
        /\ ~Returned(outs[i])

\* C5: air_abs_hum_vol(rh, t) fails for every t with t + 273.15 <= 0, and a
\* call that returns has divided by a t + 273.15 above zero.
C5_AbsoluteTemperatureGuarded ==
    \A i \in Made :
        IsCall(i, "air_abs_hum_vol") /\ ScalarArgs(i)
            => /\ FLe(FAdd(calls[i].args[2].f, Dec(27315, 2)), FZero(0)) => ~Returned(outs[i])
               /\ Returned(outs[i]) => Positive(FAdd(calls[i].args[2].f, Dec(27315, 2)))

\* air_abs_hum_vol(50.0, -273.15) and air_abs_hum_vol(50.0, -300.0) have failed
C5_Witness ==
    \E i \in Made :
        /\ IsCall(i, "air_abs_hum_vol")
        /\ calls[i].args[1] = Float(FInt(50))
        /\ calls[i].args[2] \in {Float(FNeg(Dec(27315, 2))), Float(FInt(-300))}
        /\ outs[i].err = "AssertionError"

\* call i, if it is a call of f, returns the first value fp[1] at or below the
\* first abscissa and the last value at or above the last abscissa
Clamps(i, f, xp, fp, k) ==
    IsCall(i, f) =>
        /\ FLe(calls[i].args[1].f, FInt(xp[1])) => outs[i] = Ok(Dec(fp[1], k))
        /\ FLe(FInt(xp[Len(xp)]), calls[i].args[1].f) => outs[i] = Ok(Dec(fp[Len(fp)], k))

\* C6: each table function returns the first tabulated value for every theta
\* at or below the first tabulated temperature and the last one for every
\* theta at or above the last; c_th_water(-10) = c_th_water(0) = 4217.7 and
\* c_th_water(150) = c_th_water(100) = 4216.0.
C6_TablesClamp ==
    \A i \in Made :
        /\ Clamps(i, "c_th_water", c_th_water_t_ref, c_th_water_c_ref, 1)
        /\ Clamps(i, "rho_glykol60", rho_glykol60_t_ref, rho_glykol60_rho_ref, 6)
        /\ Clamps(i, "c_th_glykol60", c_th_glykol60_t_ref, c_th_glykol60_c_ref, 2)
        /\ IsCall(i, "c_th_water") /\ calls[i].args[1].f \in {FInt(-10), FInt(0)}
            => outs[i] = Ok(Dec(42177, 1))
        /\ IsCall(i, "c_th_water") /\ calls[i].args[1].f \in {FInt(150), FInt(100)}
            => outs[i] = Ok(Dec(42160, 1))

\* c_th_water(-10.0) and c_th_water(150.0) have returned
C6_Witness ==
    \E i \in Made :
        /\ IsCall(i, "c_th_water")
        /\ calls[i].args[1].f \in {FInt(-10), FInt(150)}
        /\ Returned(outs[i])

\* C7: the table of c_th_glykol60 has 30 abscissas, -40 to 105 in steps of 5,
\* and 30 values, and c_th_glykol60 at abscissa j returns value j exactly.
C7_ExactAtAbscissas ==
    /\ Len(c_th_glykol60_t_ref) = 30
    /\ Len(c_th_glykol60_c_ref) = 30
    /\ \A j \in 1..30 : c_th_glykol60_t_ref[j] = (5 * j) - 45
    /\ \A j \in 1..29 : c_th_glykol60_t_ref[j] < c_th_glykol60_t_ref[j + 1]
    /\ \A i \in Made :
        \A j \in 1..30 :
            IsCall(i, "c_th_glykol60") /\ calls[i].args[1].f = FInt((5 * j) - 45)
                => outs[i] = Ok(Dec(c_th_glykol60_c_ref[j], 2))

\* c_th_glykol60(-35.0) has returned 2749.60
C7_Witness ==
    \E i \in Made :
        /\ IsCall(i, "c_th_glykol60")
        /\ calls[i].args[1].f = FInt(-35)
        /\ outs[i] = Ok(Dec(274960, 2))

\* call i is air_dew_point(rh, t) with 0 < rh <= 100 and t in [-45, 60]
DewPointCase(i) ==
    /\ IsCall(i, "air_dew_point") /\ ScalarArgs(i)
    /\ Positive(calls[i].args[1].f) /\ FLe(calls[i].args[1].f, FInt(100))
    /\ FLe(FInt(-45), calls[i].args[2].f) /\ FLe(calls[i].args[2].f, FInt(60))

Pair(f) == Len(outs) = 2 /\ IsCall(1, f) /\ IsCall(2, f)

\* C9: adjacent reference densities fall strictly, and for theta1 < theta2 in
\* [-40, 110], rho_glykol60(theta1) >= rho_glykol60(theta2), strictly if the
\* two are adjacent abscissas.
C9_DensityFalls ==
    /\ Len(rho_glykol60_rho_ref) = 16
    /\ \A j \in 1..15 : rho_glykol60_rho_ref[j] > rho_glykol60_rho_ref[j + 1]
    /\ (Pair("rho_glykol60") /\ FLt(calls[1].args[1].f, calls[2].args[1].f))
        => /\ Returned(outs[1]) /\ Returned(outs[2])
           /\ FLe(outs[2].v, outs[1].v)
           /\ \A j \in 1..15 :
                (calls[1].args[1].f = FInt((10 * j) - 50)
                    /\ calls[2].args[1].f = FInt((10 * j) - 40))
                => FLt(outs[2].v, outs[1].v)

\* rho_glykol60(20.0) and then rho_glykol60(30.0) have returned, the second less
C9_Witness ==
    /\ Pair("rho_glykol60")
    /\ calls[1].args[1].f = FInt(20) /\ calls[2].args[1].f = FInt(30)
    /\ FLt(outs[2].v, outs[1].v)

\* C10 as stated: water_p_sat(t) > 0 on [-45, 60], and water_p_sat(t1) <
\* water_p_sat(t2) for all t1 < t2 of the range.
C10_StrictlyIncreasing ==
    /\ \A i \in Made : IsCall(i, "water_p_sat") => Returned(outs[i]) /\ Positive(outs[i].v)
    /\ Pair("water_p_sat") /\ FLt(calls[1].args[1].f, calls[2].args[1].f)
        => FLt(outs[1].v, outs[2].v)

\* C10 amended: water_p_sat(t) > 0 on [-45, 60], and water_p_sat(t1) <
\* water_p_sat(t2) for all t1, t2 of the range with t2 - t1 >= 1e-9.
C10_IncreasingBeyondRounding ==
    /\ \A i \in Made : IsCall(i, "water_p_sat") => Returned(outs[i]) /\ Positive(outs[i].v)
    /\ Pair("water_p_sat") /\ FLe(Dec(1, 9), FSub(calls[2].args[1].f, calls[1].args[1].f))
        => FLt(outs[1].v, outs[2].v)

\* water_p_sat(17.28) and then water_p_sat(17.28 + 2e-9) have returned, the
\* second more
C10_Witness ==
    /\ Pair("water_p_sat")
    /\ calls[1].args[1].f = Dec(1728, 2)
    /\ calls[2].args[1].f = FAdd(Dec(1728, 2), Dec(2, 9))
    /\ FLt(outs[1].v, outs[2].v)
====
